---- MODULE Spec2Model ----
(***************************************************************************)
(* A model of the rlox pipeline: Scanner (src/src/scanner.rs), Parser      *)
(* (src/src/parser.rs), Interpreter (src/src/interpreter.rs) and the Lox   *)
(* driver with its error sink (src/src/lox.rs).                            *)
(*                                                                         *)
(* Text is a sequence of one-character strings.  The alphabets are ASCII,  *)
(* so a byte offset is a character index and len_utf8 is 1.  An f64 is an  *)
(* exact fraction <<n, d>> in lowest terms, extended with <<1, 0>> (inf),  *)
(* <<-1, 0>> (-inf) and <<0, 0>> (NaN); rounding and the sign of zero are  *)
(* not modelled.                                                           *)
(***************************************************************************)
EXTENDS Integers, Sequences, FiniteSets, TLC

\* ------------------------------------------------------------------ bounds
MaxScanLen == 4
MaxSrcLen == 3
MaxTokens == 4
MaxStmts == 3

\* ------------------------------------------------------------- characters
\* The value peek() returns at the end of the text (scanner.rs:148).
NUL == "NUL"
Quote == "\""
Newline == "\n"

Digits == {"0", "1", "2", "3", "4", "5", "6", "7", "8", "9"}
Letters ==
  {"a", "b", "c", "d", "e", "f", "g", "h", "i", "j", "k", "l", "m",
   "n", "o", "p", "q", "r", "s", "t", "u", "v", "w", "x", "y", "z"}

is_ascii_digit(c) == c \in Digits
is_alphabetic(c) == c \in Letters
is_alphanumeric(c) == c \in Letters \cup Digits
len_utf8(c) == 1

\* A Rust string literal as a sequence of characters.
Chars(s) ==
  CASE s = "and" -> <<"a", "n", "d">>
    [] s = "class" -> <<"c", "l", "a", "s", "s">>
    [] s = "else" -> <<"e", "l", "s", "e">>
    [] s = "false" -> <<"f", "a", "l", "s", "e">>
    [] s = "fun" -> <<"f", "u", "n">>
    [] s = "for" -> <<"f", "o", "r">>
    [] s = "if" -> <<"i", "f">>
    [] s = "nil" -> <<"n", "i", "l">>
    [] s = "or" -> <<"o", "r">>
    [] s = "print" -> <<"p", "r", "i", "n", "t">>
    [] s = "return" -> <<"r", "e", "t", "u", "r", "n">>
    [] s = "super" -> <<"s", "u", "p", "e", "r">>
    [] s = "this" -> <<"t", "h", "i", "s">>
    [] s = "true" -> <<"t", "r", "u", "e">>
    [] s = "var" -> <<"v", "a", "r">>
    [] s = "while" -> <<"w", "h", "i", "l", "e">>

KeywordNames ==
  {"and", "class", "else", "false", "fun", "for", "if", "nil", "or", "print",
   "return", "super", "this", "true", "var", "while"}

KeywordKind(s) ==
  CASE s = "and" -> "And" [] s = "class" -> "Class" [] s = "else" -> "Else"
    [] s = "false" -> "False" [] s = "fun" -> "Fun" [] s = "for" -> "For"
    [] s = "if" -> "If" [] s = "nil" -> "Nil" [] s = "or" -> "Or"
    [] s = "print" -> "Print" [] s = "return" -> "Return"
    [] s = "super" -> "Super" [] s = "this" -> "This" [] s = "true" -> "True"
    [] s = "var" -> "Var" [] s = "while" -> "While"

\* KEYWORDS.get(text).copied().unwrap_or(Identifier)
KEYWORDS(text) ==
  IF \E s \in KeywordNames : Chars(s) = text
  THEN KeywordKind(CHOOSE s \in KeywordNames : Chars(s) = text)
  ELSE "Identifier"

\* ------------------------------------------------------- numbers (f64)
Abs(n) == IF n < 0 THEN -n ELSE n
Sign(n) == IF n < 0 THEN -1 ELSE IF n > 0 THEN 1 ELSE 0

RECURSIVE GCD(_, _)
GCD(a, b) == IF b = 0 THEN a ELSE GCD(b, a % b)

Frac(n, d) ==
  IF d = 0 THEN <<Sign(n), 0>>
  ELSE LET g == GCD(Abs(n), Abs(d))
       IN <<(Sign(d) * n) \div g, Abs(d) \div g>>

NaN == <<0, 0>>
IsNaN(x) == x = NaN
IsInf(x) == x[2] = 0 /\ x[1] # 0

FNeg(x) == <<-x[1], x[2]>>
FAdd(x, y) ==
  IF IsNaN(x) \/ IsNaN(y) THEN NaN
  ELSE IF IsInf(x) /\ IsInf(y) THEN (IF x = y THEN x ELSE NaN)
  ELSE IF IsInf(x) THEN x
  ELSE IF IsInf(y) THEN y
  ELSE Frac(x[1] * y[2] + y[1] * x[2], x[2] * y[2])
FSub(x, y) == FAdd(x, FNeg(y))
FMul(x, y) == Frac(x[1] * y[1], x[2] * y[2])
FDiv(x, y) == Frac(x[1] * y[2], x[2] * y[1])
FLess(x, y) ==
  IF IsNaN(x) \/ IsNaN(y) THEN FALSE
  ELSE IF IsInf(x) /\ IsInf(y) THEN x[1] < y[1]
  ELSE x[1] * y[2] < y[1] * x[2]
FEq(x, y) == ~IsNaN(x) /\ ~IsNaN(y) /\ x = y
FLessEq(x, y) == FLess(x, y) \/ FEq(x, y)

DigitVal(c) ==
  CASE c = "0" -> 0 [] c = "1" -> 1 [] c = "2" -> 2 [] c = "3" -> 3
    [] c = "4" -> 4 [] c = "5" -> 5 [] c = "6" -> 6 [] c = "7" -> 7
    [] c = "8" -> 8 [] c = "9" -> 9

RECURSIVE Pow10(_)
Pow10(k) == IF k = 0 THEN 1 ELSE 10 * Pow10(k - 1)

\* The digits of a lexeme read as one integer, the '.' skipped.
RECURSIVE DigitsVal(_)
DigitsVal(text) ==
  IF text = <<>> THEN 0
  ELSE LET c == text[Len(text)]
           rest == SubSeq(text, 1, Len(text) - 1)
       IN IF c = "." THEN DigitsVal(rest) ELSE 10 * DigitsVal(rest) + DigitVal(c)

\* value.parse::<f64>().unwrap_or(0.0) on <digits> or <digits>.<digits>
ParseF64(text) ==
  IF text = <<>> \/ \E i \in 1..Len(text) : text[i] \notin Digits \cup {"."}
  THEN <<0, 1>>
  ELSE IF \E i \in 1..Len(text) : text[i] = "."
       THEN LET dot == CHOOSE i \in 1..Len(text) : text[i] = "."
            IN Frac(DigitsVal(text), Pow10(Len(text) - dot))
       ELSE Frac(DigitsVal(text), 1)

\* ------------------------------------------------- literals and tokens
\* token.rs Literal, and None of Option<Literal>, in one record shape.
Lit(kind, num, str, bool) == [kind |-> kind, num |-> num, str |-> str, bool |-> bool]
LitNumber(x) == Lit("Number", x, <<>>, FALSE)
LitStr(s) == Lit("Str", <<0, 1>>, s, FALSE)
LitBool(b) == Lit("Bool", <<0, 1>>, <<>>, b)
LitNil == Lit("Nil", <<0, 1>>, <<>>, FALSE)
NoLiteral == Lit("None", <<0, 1>>, <<>>, FALSE)

Token(kind, lexeme, literal, line) ==
  [kind |-> kind, lexeme |-> lexeme, literal |-> literal, line |-> line]

\* ------------------------------------------------------------------ state
VARIABLES
  mode, pc, exit,                  \* the driver: run_file / run_prompt and Lox::run
  first,                           \* what the first of two runs of one text left
  had_error, had_runtime_error,   \* Lox
  errors, output,                  \* what this run wrote to stderr and stdout
  source, start, current, line, tokens, spc,   \* Scanner
  string_turn,                     \* Scanner::string: the parity of the turns of its loop
  pcur, pstack, preg, parsed,      \* Parser
  statements, idx, last            \* Interpreter::interpret

driverVars == <<mode, pc, exit, first>>
loxVars == <<had_error, had_runtime_error>>
ioVars == <<errors, output>>
scanVars == <<source, start, current, line, tokens, spc, string_turn>>
parseVars == <<pcur, pstack, preg, parsed>>
interpVars == <<statements, idx, last>>
vars == <<driverVars, loxVars, ioVars, scanVars, parseVars, interpVars>>

\* The record of a run of Lox::run that has returned: what it wrote and the
\* flags it left; NoFirst while there is none.
NoFirst ==
  [done |-> FALSE, errors |-> <<>>, output |-> <<>>,
   had_error |-> FALSE, had_runtime_error |-> FALSE, kind |-> ""]

\* The exit status of a Rust process that panicked (the unwrap() calls).
PanicExit == 101

\* One line of stderr.
Report(kind, ln, where, message) ==
  [kind |-> kind, line |-> ln, where |-> where, message |-> message]

\* ---------------------------------------------------------------- Scanner
is_at_end == current >= Len(source)
PeekAt(i) == IF i < Len(source) THEN source[i + 1] ELSE NUL
peek == PeekAt(current)
peek_next == PeekAt(current + 1)
\* advance() leaves the cursor where it is when peek() is '\0'.
AdvanceFrom(i) == IF PeekAt(i) # NUL THEN i + len_utf8(PeekAt(i)) ELSE i
\* match_char(expected) at offset i
MatchAt(i, expected) == PeekAt(i) = expected

Lexeme(s, c) == SubSeq(source, s + 1, c)
add_token(kind, literal, s, c, ln) ==
  Append(tokens, Token(kind, Lexeme(s, c), literal, ln))

SingleKind(c) ==
  CASE c = "(" -> "LeftParen" [] c = ")" -> "RightParen"
    [] c = "{" -> "LeftBrace" [] c = "}" -> "RightBrace"
    [] c = "," -> "Comma" [] c = "." -> "Dot" [] c = "-" -> "Minus"
    [] c = "+" -> "Plus" [] c = ";" -> "Semicolon" [] c = "*" -> "Star"
SingleChars == {"(", ")", "{", "}", ",", ".", "-", "+", ";", "*"}

PairKind(c, eq) ==
  CASE c = "!" -> (IF eq THEN "BangEqual" ELSE "Bang")
    [] c = "=" -> (IF eq THEN "EqualEqual" ELSE "Equal")
    [] c = "<" -> (IF eq THEN "LessEqual" ELSE "Less")
    [] c = ">" -> (IF eq THEN "GreaterEqual" ELSE "Greater")
PairChars == {"!", "=", "<", ">"}
Blank == {" ", "\r", "\t"}

\* One turn of the loop of scan_tokens: start = current; scan_token().
ScanToken ==
  /\ pc = "scan" /\ spc = "top" /\ ~is_at_end
  /\ LET c == peek
         c1 == AdvanceFrom(current)
     IN /\ start' = current
        /\ CASE c \in SingleChars ->
                  /\ tokens' = add_token(SingleKind(c), NoLiteral, current, c1, line)
                  /\ current' = c1
                  /\ UNCHANGED <<line, spc, errors, had_error>>
             [] c \in PairChars ->
                  LET eq == MatchAt(c1, "=")
                      c2 == IF eq THEN c1 + len_utf8("=") ELSE c1
                  IN /\ tokens' = add_token(PairKind(c, eq), NoLiteral, current, c2, line)
                     /\ current' = c2
                     /\ UNCHANGED <<line, spc, errors, had_error>>
             [] c = "/" ->
                  IF MatchAt(c1, "/")
                  THEN /\ current' = c1 + len_utf8("/")
                       /\ spc' = "comment"
                       /\ UNCHANGED <<tokens, line, errors, had_error>>
                  ELSE /\ tokens' = add_token("Slash", NoLiteral, current, c1, line)
                       /\ current' = c1
                       /\ UNCHANGED <<line, spc, errors, had_error>>
             [] c \in Blank ->
                  /\ current' = c1
                  /\ UNCHANGED <<tokens, line, spc, errors, had_error>>
             [] c = Newline ->
                  /\ current' = c1
                  /\ line' = line + 1
                  /\ UNCHANGED <<tokens, spc, errors, had_error>>
             [] c = Quote ->
                  /\ current' = c1
                  /\ spc' = "string"
                  /\ UNCHANGED <<tokens, line, errors, had_error>>
             [] OTHER ->
                  IF is_ascii_digit(c)
                  THEN /\ current' = c1
                       /\ spc' = "number"
                       /\ UNCHANGED <<tokens, line, errors, had_error>>
                  ELSE IF is_alphabetic(c)
                  THEN /\ current' = c1
                       /\ spc' = "identifier"
                       /\ UNCHANGED <<tokens, line, errors, had_error>>
                  ELSE /\ current' = c1
                       /\ errors' = Append(errors,
                            Report("lexical", line, <<>>, "Unexpected character"))
                       /\ had_error' = TRUE
                       /\ UNCHANGED <<tokens, line, spc>>
  /\ UNCHANGED <<driverVars, had_runtime_error, output, source, string_turn,
                 parseVars, interpVars>>

\* The while loop of the '/' arm of scan_token, one turn or its exit.
Comment ==
  /\ pc = "scan" /\ spc = "comment"
  /\ IF peek # Newline /\ ~is_at_end
     THEN current' = AdvanceFrom(current) /\ spc' = spc
     ELSE current' = current /\ spc' = "top"
  /\ UNCHANGED <<driverVars, loxVars, ioVars, source, start, line, tokens,
                 string_turn, parseVars, interpVars>>

\* Scanner::string: one turn of its while loop, or what follows the loop.  A
\* turn with neither a quote nor a newline under the cursor changes nothing
\* but the count of turns, of which string_turn is the parity.
String ==
  /\ pc = "scan" /\ spc = "string"
  /\ IF peek # Quote /\ ~is_at_end
     THEN /\ IF peek = Newline
             THEN line' = line + 1 /\ current' = AdvanceFrom(current)
             ELSE UNCHANGED <<line, current>>
          /\ string_turn' = 1 - string_turn
          /\ UNCHANGED <<spc, tokens, errors, had_error>>
     ELSE IF is_at_end
     THEN /\ errors' = Append(errors,
               Report("lexical", line, <<>>, "Unterminated string."))
          /\ had_error' = TRUE
          /\ spc' = "top"
          /\ string_turn' = 0
          /\ UNCHANGED <<line, current, tokens>>
     ELSE LET c1 == AdvanceFrom(current)
              value == SubSeq(source, start + 2, c1 - 1)
          IN /\ current' = c1
             /\ tokens' = add_token("String", LitStr(value), start, c1, line)
             /\ spc' = "top"
             /\ string_turn' = 0
             /\ UNCHANGED <<line, errors, had_error>>
  /\ UNCHANGED <<driverVars, had_runtime_error, output, source, start,
                 parseVars, interpVars>>

\* Scanner::number: a turn of either digit loop, the '.' between them, or the
\* token.  spc "number" is the integer part, "fraction" the part after the '.'.
Number ==
  /\ pc = "scan" /\ spc \in {"number", "fraction"}
  /\ IF is_ascii_digit(peek)
     THEN /\ current' = AdvanceFrom(current)
          /\ UNCHANGED <<spc, tokens>>
     ELSE IF spc = "number" /\ peek = "." /\ is_ascii_digit(peek_next)
     THEN /\ current' = AdvanceFrom(current)
          /\ spc' = "fraction"
          /\ UNCHANGED tokens
     ELSE /\ tokens' = add_token("Number", LitNumber(ParseF64(Lexeme(start, current))),
                                 start, current, line)
          /\ spc' = "top"
          /\ UNCHANGED current
  /\ UNCHANGED <<driverVars, loxVars, ioVars, source, start, line, string_turn,
                 parseVars, interpVars>>

\* Scanner::identifier: a turn of its loop, or the token.
Identifier ==
  /\ pc = "scan" /\ spc = "identifier"
  /\ IF is_alphanumeric(peek)
     THEN /\ current' = AdvanceFrom(current)
          /\ UNCHANGED <<spc, tokens>>
     ELSE /\ tokens' = add_token(KEYWORDS(Lexeme(start, current)), NoLiteral,
                                 start, current, line)
          /\ spc' = "top"
          /\ UNCHANGED current
  /\ UNCHANGED <<driverVars, loxVars, ioVars, source, start, line, string_turn,
                 parseVars, interpVars>>

\* The end of scan_tokens: the Eof token, and the tokens handed to Parser::new.
ScanEof ==
  /\ pc = "scan" /\ spc = "top" /\ is_at_end
  /\ tokens' = Append(tokens, Token("Eof", <<>>, NoLiteral, line))
  /\ pc' = "parse"
  /\ UNCHANGED <<mode, first, exit, loxVars, ioVars, source, start, current, line, spc,
                 string_turn, parseVars, interpVars>>

ScanNext == ScanToken \/ Comment \/ String \/ Number \/ Identifier \/ ScanEof

\* ----------------------------------------------------------------- Parser
\* interpreter.rs Expr: <<"Literal", literal>>, <<"Grouping", expr>>,
\* <<"Unary", operator, right>>, <<"Binary", left, operator, right>>.
ExprLiteral(l) == <<"Literal", l>>
ExprGrouping(e) == <<"Grouping", e>>
ExprUnary(op, r) == <<"Unary", op, r>>
ExprBinary(l, op, r) == <<"Binary", l, op, r>>
NoExpr == <<>>
NoToken == Token("None", <<>>, NoLiteral, 0)

\* Option<&Token> of peek(): whether there is a token at the cursor.
HasPeek(i) == i < Len(tokens)
PeekTok(i) == tokens[i + 1]
\* is_at_end(): peek().map(|t| t.kind == Eof).unwrap_or(false)
p_is_at_end(i) == HasPeek(i) /\ PeekTok(i).kind = "Eof"
check(i, kind) == ~p_is_at_end(i) /\ HasPeek(i) /\ PeekTok(i).kind = kind
\* p_advance without its test of is_at_end().
p_advance_unguarded(i) == i + 1

\* advance(): the cursor after it
p_advance(i) == IF ~p_is_at_end(i) THEN i + 1 ELSE i
\* previous() with the cursor at i
previous(i) == tokens[i]
\* _match(kinds): whether it matched; on a match the cursor is p_advance(i)
match(i, kinds) == \E k \in kinds : check(i, k)

\* Parser::synchronize from cursor i: the cursor it leaves (on tokens that end
\* with Eof).  No function of the parser calls it.
RECURSIVE SyncLoop(_)
SyncLoop(i) ==
  IF p_is_at_end(i) THEN i
  ELSE IF i > 0 /\ previous(i).kind = "Semicolon" THEN i
  ELSE IF HasPeek(i) /\ PeekTok(i).kind \in
            {"Class", "Fun", "Var", "For", "If", "While", "Print", "Return"} THEN i
  ELSE SyncLoop(p_advance(i))
synchronize(i) == SyncLoop(p_advance(i))

BinopFns == {"equality", "comparison", "term", "factor"}

\* KindsOf with the operators of term and factor exchanged.
KindsOf_swapped(fn) ==
  CASE fn = "equality" -> {"BangEqual", "EqualEqual"}
    [] fn = "comparison" -> {"Greater", "GreaterEqual", "Less", "LessEqual"}
    [] fn = "term" -> {"Slash", "Star"}
    [] fn = "factor" -> {"Minus", "Plus"}

\* The operator kinds each binary level passes to left_binop.
KindsOf(fn) ==
  CASE fn = "equality" -> {"BangEqual", "EqualEqual"}
    [] fn = "comparison" -> {"Greater", "GreaterEqual", "Less", "LessEqual"}
    [] fn = "term" -> {"Minus", "Plus"}
    [] fn = "factor" -> {"Slash", "Star"}

\* The parse function each binary level passes to left_binop as `next`.
NextOf(fn) ==
  CASE fn = "equality" -> "comparison"
    [] fn = "comparison" -> "term"
    [] fn = "term" -> "factor"
    [] fn = "factor" -> "unary"

\* A suspended call: which function, where in it, and its locals.
Frame(fn, stage, expr, operator) ==
  [fn |-> fn, stage |-> stage, expr |-> expr, operator |-> operator]

\* What passes between caller and callee: a call being made, or a Result.
Idle == [tag |-> "idle", fn |-> "", expr |-> NoExpr]
Call(fn) == [tag |-> "call", fn |-> fn, expr |-> NoExpr]
Ok(e) == [tag |-> "ok", fn |-> "", expr |-> e]
Err == [tag |-> "err", fn |-> "", expr |-> NoExpr]

NoneParsed == [some |-> FALSE, expr |-> NoExpr]
SomeParsed(e) == [some |-> TRUE, expr |-> e]

Top == pstack[Len(pstack)]
Pop == SubSeq(pstack, 1, Len(pstack) - 1)

\* Lox::error_at: the text after "Error" in the report.
WhereOf(token) ==
  IF token.kind = "Eof" THEN <<" at end">>
  ELSE <<" at '">> \o token.lexeme \o <<"'">>

\* Parser::error -> Lox::error_at -> Lox::report
SyntaxError(token, message) ==
  /\ errors' = Append(errors, Report("syntax", token.line, WhereOf(token), message))
  /\ had_error' = TRUE

\* parse() calls expression(), which calls equality().
ParseBegin ==
  /\ pc = "parse" /\ preg.tag = "idle"
  /\ preg' = Call("equality")
  /\ UNCHANGED <<driverVars, loxVars, ioVars, scanVars, pcur, pstack, parsed, interpVars>>

\* equality/comparison/term/factor enter left_binop, which calls next(self).
LeftBinopCall ==
  /\ pc = "parse" /\ preg.tag = "call" /\ preg.fn \in BinopFns
  /\ pstack' = Append(pstack, Frame(preg.fn, "left", NoExpr, NoToken))
  /\ preg' = Call(NextOf(preg.fn))
  /\ UNCHANGED <<driverVars, loxVars, ioVars, scanVars, pcur, parsed, interpVars>>

\* The while loop of left_binop with `expr` in hand: another operator and a
\* call of next(self) for its right operand, or Ok(expr).
BinopLoop(fn, expr) ==
  IF match(pcur, KindsOf(fn))
  THEN /\ pcur' = p_advance(pcur)
       /\ pstack' = Append(Pop, Frame(fn, "right", expr, previous(p_advance(pcur))))
       /\ preg' = Call(NextOf(fn))
  ELSE /\ pcur' = pcur
       /\ pstack' = Pop
       /\ preg' = Ok(expr)

\* next(self) has returned to left_binop.
LeftBinopResume ==
  /\ pc = "parse" /\ preg.tag \in {"ok", "err"}
  /\ pstack # <<>> /\ Top.fn \in BinopFns
  /\ IF preg.tag = "err"
     THEN pstack' = Pop /\ preg' = Err /\ pcur' = pcur
     ELSE IF Top.stage = "left"
     THEN BinopLoop(Top.fn, preg.expr)
     ELSE BinopLoop(Top.fn, ExprBinary(Top.expr, Top.operator, preg.expr))
  /\ UNCHANGED <<driverVars, loxVars, ioVars, scanVars, parsed, interpVars>>

UnaryCall ==
  /\ pc = "parse" /\ preg.tag = "call" /\ preg.fn = "unary"
  /\ IF match(pcur, {"Bang", "Minus"})
     THEN /\ pcur' = p_advance(pcur)
          /\ pstack' = Append(pstack,
               Frame("unary", "right", NoExpr, previous(p_advance(pcur))))
          /\ preg' = Call("unary")
     ELSE /\ preg' = Call("primary")
          /\ UNCHANGED <<pcur, pstack>>
  /\ UNCHANGED <<driverVars, loxVars, ioVars, scanVars, parsed, interpVars>>

\* The recursive unary() has returned to unary.
UnaryResume ==
  /\ pc = "parse" /\ preg.tag \in {"ok", "err"}
  /\ pstack # <<>> /\ Top.fn = "unary"
  /\ pstack' = Pop
  /\ preg' = IF preg.tag = "err" THEN Err ELSE Ok(ExprUnary(Top.operator, preg.expr))
  /\ UNCHANGED <<driverVars, loxVars, ioVars, scanVars, pcur, parsed, interpVars>>

PrimaryCall ==
  /\ pc = "parse" /\ preg.tag = "call" /\ preg.fn = "primary"
  /\ IF match(pcur, {"False"})
     THEN /\ pcur' = p_advance(pcur) /\ preg' = Ok(ExprLiteral(LitBool(FALSE)))
          /\ UNCHANGED <<pstack, pc, exit, errors, had_error>>
     ELSE IF match(pcur, {"True"})
     THEN /\ pcur' = p_advance(pcur) /\ preg' = Ok(ExprLiteral(LitBool(TRUE)))
          /\ UNCHANGED <<pstack, pc, exit, errors, had_error>>
     ELSE IF match(pcur, {"Nil"})
     THEN /\ pcur' = p_advance(pcur) /\ preg' = Ok(ExprLiteral(LitNil))
          /\ UNCHANGED <<pstack, pc, exit, errors, had_error>>
     ELSE IF match(pcur, {"Number", "String"})
     THEN /\ pcur' = p_advance(pcur)
          /\ IF previous(p_advance(pcur)).literal.kind = "None"
             THEN \* literal.clone().unwrap() on None
                  preg' = Idle /\ pc' = "exited" /\ exit' = <<PanicExit>>
             ELSE preg' = Ok(ExprLiteral(previous(p_advance(pcur)).literal))
                  /\ UNCHANGED <<pc, exit>>
          /\ UNCHANGED <<pstack, errors, had_error>>
     ELSE IF match(pcur, {"LeftParen"})
     THEN /\ pcur' = p_advance(pcur)
          /\ pstack' = Append(pstack, Frame("primary", "group", NoExpr, NoToken))
          /\ preg' = Call("equality")
          /\ UNCHANGED <<pc, exit, errors, had_error>>
     ELSE IF ~HasPeek(pcur)
     THEN \* peek().unwrap() on None
          /\ preg' = Idle /\ pc' = "exited" /\ exit' = <<PanicExit>>
          /\ UNCHANGED <<pcur, pstack, errors, had_error>>
     ELSE /\ SyntaxError(PeekTok(pcur), "Expect expression.")
          /\ preg' = Err
          /\ UNCHANGED <<pcur, pstack, pc, exit>>
  /\ UNCHANGED <<mode, first, had_runtime_error, output, scanVars, parsed, interpVars>>

\* expression() has returned to the '(' arm of primary: consume(RightParen, ..)
\* with its Result dropped, then Ok(Grouping).
GroupingResume ==
  /\ pc = "parse" /\ preg.tag \in {"ok", "err"}
  /\ pstack # <<>> /\ Top.fn = "primary"
  /\ pstack' = Pop
  /\ IF preg.tag = "err"
     THEN preg' = Err /\ UNCHANGED <<pcur, pc, exit, errors, had_error>>
     ELSE IF check(pcur, "RightParen")
     THEN /\ pcur' = p_advance(pcur)
          /\ preg' = Ok(ExprGrouping(preg.expr))
          /\ UNCHANGED <<pc, exit, errors, had_error>>
     ELSE IF ~HasPeek(pcur)
     THEN /\ preg' = Idle /\ pc' = "exited" /\ exit' = <<PanicExit>>
          /\ UNCHANGED <<pcur, errors, had_error>>
     ELSE /\ SyntaxError(PeekTok(pcur), "Expect ')' after expression.")
          /\ preg' = Ok(ExprGrouping(preg.expr))
          /\ UNCHANGED <<pcur, pc, exit>>
  /\ UNCHANGED <<mode, first, had_runtime_error, output, scanVars, parsed, interpVars>>

\* expression() has returned to parse(): Some(expr) or None.
ParseReturn ==
  /\ pc = "parse" /\ preg.tag \in {"ok", "err"} /\ pstack = <<>>
  /\ parsed' = IF preg.tag = "ok" THEN SomeParsed(preg.expr) ELSE NoneParsed
  /\ preg' = Idle
  /\ pc' = "unwrap"
  /\ UNCHANGED <<mode, first, exit, loxVars, ioVars, scanVars, pcur, pstack, interpVars>>

ParseNext ==
  \/ ParseBegin \/ LeftBinopCall \/ LeftBinopResume \/ UnaryCall \/ UnaryResume
  \/ PrimaryCall \/ GroupingResume \/ ParseReturn

\* ------------------------------------------------------------ Interpreter
\* interpreter.rs Value, in the record shape of Literal.
ValNil == Lit("Nil", <<0, 1>>, <<>>, FALSE)
ValBool(b) == Lit("Bool", <<0, 1>>, <<>>, b)
ValNumber(x) == Lit("Number", x, <<>>, FALSE)
ValStr(s) == Lit("Str", <<0, 1>>, s, FALSE)

\* impl From<Literal> for Value
FromLiteral(l) ==
  CASE l.kind = "Number" -> ValNumber(l.num)
    [] l.kind = "Str" -> ValStr(l.str)
    [] l.kind = "Bool" -> ValBool(l.bool)
    [] l.kind = "Nil" -> ValNil

\* Result<Value, RuntimeError>
ROk(v) == [ok |-> TRUE, value |-> v, token |-> NoToken, message |-> ""]
RErr(token, message) == [ok |-> FALSE, value |-> ValNil, token |-> token, message |-> message]

number_operand_error(operator) == RErr(operator, "Operand must be a number.")
\* number_operands_error with the message of number_operand_error.
number_operands_error_singular(operator) == RErr(operator, "Operand must be a number.")
number_operands_error(operator) == RErr(operator, "Operands must be a number.")

is_truthy(val) ==
  CASE val.kind = "Nil" -> FALSE
    [] val.kind = "Bool" -> val.bool
    [] OTHER -> TRUE

is_equal(left, right) ==
  CASE left.kind = "Bool" /\ right.kind = "Bool" -> left.bool = right.bool
    [] left.kind = "Nil" /\ right.kind = "Nil" -> TRUE
    [] OTHER -> FALSE

BothNumbers(l, r) == l.kind = "Number" /\ r.kind = "Number"

\* The match on operator.kind of the Unary arm of evaluate.
EvalUnary(operator, right) ==
  CASE operator.kind = "Minus" ->
         IF right.kind = "Number" THEN ROk(ValNumber(FNeg(right.num)))
         ELSE number_operand_error(operator)
    [] operator.kind = "Bang" -> ROk(ValBool(~is_truthy(right)))
    [] OTHER -> ROk(ValNil)

\* The match on operator.kind of the Binary arm of evaluate.
EvalBinary(left, operator, right) ==
  CASE operator.kind = "Minus" ->
         IF BothNumbers(left, right) THEN ROk(ValNumber(FSub(left.num, right.num)))
         ELSE number_operands_error(operator)
    [] operator.kind = "Plus" ->
         IF BothNumbers(left, right) THEN ROk(ValNumber(FAdd(left.num, right.num)))
         ELSE IF left.kind = "Str" /\ right.kind = "Str"
         THEN ROk(ValStr(left.str \o right.str))
         ELSE RErr(operator, "Operands must be two numbers or two strings.")
    [] operator.kind = "Slash" ->
         IF BothNumbers(left, right) THEN ROk(ValNumber(FDiv(left.num, right.num)))
         ELSE number_operands_error(operator)
    [] operator.kind = "Star" ->
         IF BothNumbers(left, right) THEN ROk(ValNumber(FMul(left.num, right.num)))
         ELSE number_operands_error(operator)
    [] operator.kind = "Greater" ->
         IF BothNumbers(left, right) THEN ROk(ValBool(FLess(right.num, left.num)))
         ELSE number_operands_error(operator)
    [] operator.kind = "GreaterEqual" ->
         IF BothNumbers(left, right) THEN ROk(ValBool(FLessEq(right.num, left.num)))
         ELSE number_operands_error(operator)
    [] operator.kind = "Less" ->
         IF BothNumbers(left, right) THEN ROk(ValBool(FLess(left.num, right.num)))
         ELSE number_operands_error(operator)
    [] operator.kind = "LessEqual" ->
         IF BothNumbers(left, right) THEN ROk(ValBool(FLessEq(left.num, right.num)))
         ELSE number_operands_error(operator)
    [] operator.kind = "BangEqual" -> ROk(ValBool(~is_equal(left, right)))
    [] operator.kind = "EqualEqual" -> ROk(ValBool(is_equal(left, right)))
    [] OTHER -> ROk(ValNil)

RECURSIVE evaluate(_)
evaluate(expr) ==
  CASE expr[1] = "Literal" -> ROk(FromLiteral(expr[2]))
    [] expr[1] = "Grouping" -> evaluate(expr[2])
    [] expr[1] = "Unary" ->
         LET right == evaluate(expr[3])
         IN IF ~right.ok THEN right ELSE EvalUnary(expr[2], right.value)
    [] expr[1] = "Binary" ->
         LET left == evaluate(expr[2])
         IN IF ~left.ok THEN left
            ELSE LET right == evaluate(expr[4])
                 IN IF ~right.ok THEN right
                    ELSE EvalBinary(left.value, expr[3], right.value)

RECURSIVE NatText(_)
NatText(n) ==
  LET d == <<"0", "1", "2", "3", "4", "5", "6", "7", "8", "9">>[(n % 10) + 1]
  IN IF n < 10 THEN <<d>> ELSE Append(NatText(n \div 10), d)
IntText(n) == IF n < 0 THEN <<"-">> \o NatText(-n) ELSE NatText(n)

\* Interpreter::stringify.  An integral number prints as its digits (f64's
\* to_string writes no ".0"); a fraction n/d is written "n/d" here, its decimal
\* expansion is not modelled.
stringify(value) ==
  CASE value.kind = "Nil" -> <<"n", "i", "l">>
    [] value.kind = "Str" -> value.str
    [] value.kind = "Bool" ->
         (IF value.bool THEN <<"t", "r", "u", "e">> ELSE <<"f", "a", "l", "s", "e">>)
    [] value.kind = "Number" ->
         IF IsNaN(value.num) THEN <<"N", "a", "N">>
         ELSE IF IsInf(value.num)
         THEN (IF value.num[1] > 0 THEN <<"i", "n", "f">> ELSE <<"-", "i", "n", "f">>)
         ELSE IF value.num[2] = 1 THEN IntText(value.num[1])
         ELSE IntText(value.num[1]) \o <<"/">> \o IntText(value.num[2])

\* interpreter.rs Stmt
Stmt(kind, expr) == [kind |-> kind, expr |-> expr]

\* Interpreter::execute: its Result, and the lines it printed.
execute(stmt) ==
  LET r == evaluate(stmt.expr)
  IN [result |-> r,
      printed |-> IF r.ok /\ stmt.kind = "Print" THEN <<stringify(r.value)>> ELSE <<>>]

\* for_next as if the first Err ended the loop.
for_next_until_err(i, ok) == IF ok THEN i + 1 ELSE Len(statements)

\* The for loop of interpret: the index of the statement it runs after the one
\* at i, whatever the Result of that one.
for_next(i, ok) == i + 1

\* One turn of the for loop of Interpreter::interpret.
InterpretStep ==
  /\ pc = "interpret" /\ idx < Len(statements)
  /\ LET x == execute(statements[idx + 1])
     IN /\ last' = x.result
        /\ idx' = for_next(idx, x.result.ok)
        /\ output' = output \o x.printed
        /\ IF x.result.ok
           THEN UNCHANGED <<errors, had_runtime_error>>
           ELSE \* Lox::runtime_error
                /\ errors' = Append(errors,
                     Report("runtime", x.result.token.line, <<>>, x.result.message))
                /\ had_runtime_error' = TRUE
  /\ UNCHANGED <<driverVars, had_error, scanVars, parseVars, statements>>

\* interpret returns to Lox::run, which prints its () with {:?}.
InterpretReturn ==
  /\ pc = "interpret" /\ idx >= Len(statements)
  /\ output' = Append(output, <<"(", ")">>)
  /\ pc' = "after"
  /\ UNCHANGED <<mode, first, exit, loxVars, errors, scanVars, parseVars, interpVars>>

InterpNext == InterpretStep \/ InterpretReturn

\* -------------------------------------------------------------------- Lox
\* Scanner::new, Parser::new and Interpreter::new: the state a run starts in.
FreshRun(src) ==
  /\ source' = src /\ start' = 0 /\ current' = 0 /\ line' = 1 /\ tokens' = <<>>
  /\ spc' = "top" /\ string_turn' = 0
  /\ pcur' = 0 /\ pstack' = <<>> /\ preg' = Idle /\ parsed' = NoneParsed
  /\ statements' = <<>> /\ idx' = 0 /\ last' = ROk(ValNil)
  /\ errors' = <<>> /\ output' = <<>>

\* ReturnsEarly with the test left out.
ReturnsEarly_never == FALSE

\* ReturnsEarly testing the runtime-error flag as well.
ReturnsEarly_either == had_error \/ had_runtime_error

\* The test of `if self.had_error { return; }` before interpret.
ReturnsEarly == had_error

\* parser.parse().unwrap(): a panic on None.  The value is handed to interpret
\* as its statements; it is one expression, and either statement form is
\* admitted for it, the same form on every run of one build.
Unwrap ==
  /\ pc = "unwrap"
  /\ IF parsed.some
     THEN /\ \E kind \in {"Expression", "Print"} :
               /\ first.done => kind = first.kind
               /\ statements' = <<Stmt(kind, parsed.expr)>>
          /\ pc' = "check"
          /\ UNCHANGED exit
     ELSE /\ pc' = "exited"
          /\ exit' = <<PanicExit>>
          /\ UNCHANGED statements
  /\ UNCHANGED <<mode, first, loxVars, ioVars, scanVars, parseVars, idx, last>>

ErrorCheck ==
  /\ pc = "check"
  /\ pc' = IF ReturnsEarly THEN "returned" ELSE "interpret"
  /\ UNCHANGED <<mode, first, exit, loxVars, ioVars, scanVars, parseVars, interpVars>>

\* The two ifs of Lox::run after interpret; clear_error clears had_error only.
AfterInterpret ==
  /\ pc = "after"
  /\ IF had_error
     THEN /\ had_error' = FALSE
          /\ pc' = "exited"
          /\ exit' = <<65>>
     ELSE /\ had_error' = (IF had_runtime_error THEN FALSE ELSE had_error)
          /\ pc' = "returned"
          /\ UNCHANGED exit
  /\ UNCHANGED <<mode, first, had_runtime_error, ioVars, scanVars, parseVars, interpVars>>

\* Lox::run_file after run() has returned.
RunFileEnd ==
  /\ mode = "file" /\ pc = "returned"
  /\ exit' = IF had_error THEN <<65>> ELSE IF had_runtime_error THEN <<70>> ELSE <<0>>
  /\ pc' = "exited"
  /\ UNCHANGED <<mode, first, loxVars, ioVars, scanVars, parseVars, interpVars>>

\* ------------------------------------------------------------------ inputs
RECURSIVE SeqsUpTo(_, _)
SeqsUpTo(S, n) ==
  IF n = 0 THEN {<<>>}
  ELSE LET shorter == SeqsUpTo(S, n - 1)
       IN shorter \cup {Append(q, x) : q \in {r \in shorter : Len(r) = n - 1}, x \in S}

\* Texts the scanner is run on by itself (none holds the character '\0').
ScanAlphabet == {Quote, Newline, "a", "1", ".", "=", "/", "+", " ", "@"}
ScanSamples ==
  {<<Quote, "a", "b", "c", Quote>>,
   <<Quote, "a", Newline, "b", Quote, "+", "1">>,
   <<"n", "i", "l", "/", "/", "x", Newline, "1", ".", "5">>,
   <<"p", "r", "i", "n", "t", " ", "1", ";">>}
ScanSources == SeqsUpTo(ScanAlphabet, MaxScanLen) \cup ScanSamples

\* Texts the whole pipeline is run on.
RunAlphabet == {"1", "-", "(", ")", Quote, "@", "="}
RunSamples ==
  {<<"p", "r", "i", "n", "t", " ", "1", ";">>,
   <<"1", "=", "=", "1", ".", "0">>,
   <<"n", "i", "l", "=", "=", "f", "a", "l", "s", "e">>,
   <<"/", "/", "x", Newline, "1", "+", "2", "*", "3">>,
   <<"-", Quote, Quote, "/", "2">>}
RunSources == SeqsUpTo(RunAlphabet, MaxSrcLen) \cup RunSamples

\* The lines run_prompt reads: lines() cuts the text at each newline.
PromptLines == {src \in RunSources : \A i \in 1..Len(src) : src[i] # Newline}

\* run_prompt: the next line is read and run.
PromptLine ==
  /\ mode = "prompt" /\ pc = "returned"
  /\ \E src \in PromptLines : FreshRun(src)
  /\ pc' = "scan"
  /\ UNCHANGED <<mode, first, exit, loxVars>>

\* run_prompt: the input has ended, and the loop with it.
PromptEof ==
  /\ mode = "prompt" /\ pc = "returned"
  /\ exit' = <<0>>
  /\ pc' = "exited"
  /\ UNCHANGED <<mode, first, loxVars, ioVars, scanVars, parseVars, interpVars>>

\* ---------------------------------------------------------- specifications
\* Lox::new, then run_file or run_prompt with a first text.
Init ==
  /\ mode \in {"file", "prompt"}
  /\ pc = "scan" /\ exit = <<>> /\ first = NoFirst
  /\ had_error = FALSE /\ had_runtime_error = FALSE
  /\ errors = <<>> /\ output = <<>>
  /\ source \in (IF mode = "file" THEN RunSources ELSE PromptLines)
  /\ start = 0 /\ current = 0 /\ line = 1 /\ tokens = <<>> /\ spc = "top"
  /\ string_turn = 0
  /\ pcur = 0 /\ pstack = <<>> /\ preg = Idle /\ parsed = NoneParsed
  /\ statements = <<>> /\ idx = 0 /\ last = ROk(ValNil)

Next ==
  \/ ScanToken \/ Comment \/ String \/ Number \/ Identifier \/ ScanEof
  \/ ParseBegin \/ LeftBinopCall \/ LeftBinopResume \/ UnaryCall \/ UnaryResume
  \/ PrimaryCall \/ GroupingResume \/ ParseReturn
  \/ Unwrap \/ ErrorCheck \/ InterpretStep \/ InterpretReturn \/ AfterInterpret
  \/ RunFileEnd \/ PromptLine \/ PromptEof

Spec == Init /\ [][Next]_vars

\* The scanner by itself: Scanner::new(source, lox) on a new Lox, then scan_tokens.
\* The loop of scan_tokens and the loops under it run on: nothing suspends them.
ScanInit ==
  /\ mode = "file"
  /\ pc = "scan" /\ exit = <<>> /\ first = NoFirst
  /\ had_error = FALSE /\ had_runtime_error = FALSE
  /\ errors = <<>> /\ output = <<>>
  /\ source \in ScanSources
  /\ start = 0 /\ current = 0 /\ line = 1 /\ tokens = <<>> /\ spc = "top"
  /\ string_turn = 0
  /\ pcur = 0 /\ pstack = <<>> /\ preg = Idle /\ parsed = NoneParsed
  /\ statements = <<>> /\ idx = 0 /\ last = ROk(ValNil)

ScanSpec == ScanInit /\ [][ScanNext]_vars /\ WF_vars(ScanNext)

\* The parser by itself: Parser::new(tokens, lox) on a new Lox, then parse().
\* TokOf(s) is the token scan_tokens forms for the lexeme named s on line 1
\* ("str" names the string literal of two quotes).
TokOf(s) ==
  CASE s \in Digits -> Token("Number", <<s>>, LitNumber(ParseF64(<<s>>)), 1)
    [] s \in SingleChars -> Token(SingleKind(s), <<s>>, NoLiteral, 1)
    [] s \in PairChars -> Token(PairKind(s, FALSE), <<s>>, NoLiteral, 1)
    [] s = "==" -> Token(PairKind("=", TRUE), <<"=", "=">>, NoLiteral, 1)
    [] s = "!=" -> Token(PairKind("!", TRUE), <<"!", "=">>, NoLiteral, 1)
    [] s = "<=" -> Token(PairKind("<", TRUE), <<"<", "=">>, NoLiteral, 1)
    [] s = ">=" -> Token(PairKind(">", TRUE), <<">", "=">>, NoLiteral, 1)
    [] s = "/" -> Token("Slash", <<"/">>, NoLiteral, 1)
    [] s = "str" -> Token("String", <<Quote, Quote>>, LitStr(<<>>), 1)
    [] s \in KeywordNames -> Token(KEYWORDS(Chars(s)), Chars(s), NoLiteral, 1)
EofTok == Token("Eof", <<>>, NoLiteral, 1)
TokensOf(names) == [i \in 1..Len(names) |-> TokOf(names[i])] \o <<EofTok>>

ParseAlphabet == {"1", "2", "+", "*", "-", "(", ")", ";", "==", "!"}
ParseSamples ==
  {<<"1", "+", "2", "*", "3">>,
   <<"1", "-", "2", "-", "3">>,
   <<"(", "1", "+", "2", ")", "*", "3">>,
   <<"1", "==", "2", "<", "3", "+", "4", "/", "-", "5">>,
   <<"1", "*", "2", "+", "3", ">=", "4", "!=", "nil">>,
   <<"!", "!", "true", "==", "false">>,
   <<")", ";", ")", ";">>,
   <<"print", "1", ";">>,
   <<"1", ";", "2", ";">>,
   <<"str", "+", "str">>}
ParseInputs == SeqsUpTo(ParseAlphabet, MaxTokens) \cup ParseSamples

ParseInit ==
  /\ mode = "file"
  /\ pc = "parse" /\ exit = <<>> /\ first = NoFirst
  /\ had_error = FALSE /\ had_runtime_error = FALSE
  /\ errors = <<>> /\ output = <<>>
  /\ source = <<>> /\ start = 0 /\ current = 0 /\ line = 1 /\ spc = "top"
  /\ string_turn = 0
  /\ tokens \in {TokensOf(names) : names \in ParseInputs}
  /\ pcur = 0 /\ pstack = <<>> /\ preg = Idle /\ parsed = NoneParsed
  /\ statements = <<>> /\ idx = 0 /\ last = ROk(ValNil)

ParseSpec == ParseInit /\ [][ParseNext]_vars

\* The interpreter by itself: Interpreter::new, then interpret(lox, statements)
\* on a new Lox.
OpLexeme(kind) ==
  CASE kind = "Minus" -> <<"-">> [] kind = "Plus" -> <<"+">>
    [] kind = "Slash" -> <<"/">> [] kind = "Star" -> <<"*">>
    [] kind = "Bang" -> <<"!">> [] kind = "BangEqual" -> <<"!", "=">>
    [] kind = "EqualEqual" -> <<"=", "=">> [] kind = "Greater" -> <<">">>
    [] kind = "GreaterEqual" -> <<">", "=">> [] kind = "Less" -> <<"<">>
    [] kind = "LessEqual" -> <<"<", "=">>
OpTok(kind, ln) == Token(kind, OpLexeme(kind), NoLiteral, ln)

UnaryKinds == {"Bang", "Minus"}
BinaryKinds ==
  {"Minus", "Plus", "Slash", "Star", "Greater", "GreaterEqual", "Less",
   "LessEqual", "BangEqual", "EqualEqual"}
Literals ==
  {LitNil, LitBool(TRUE), LitBool(FALSE), LitNumber(<<0, 1>>), LitNumber(<<1, 1>>),
   LitNumber(<<3, 2>>), LitStr(<<>>), LitStr(<<Newline>>)}

\* Every expression of one operator over literals, and some deeper ones.
FlatExprs ==
  {ExprLiteral(l) : l \in Literals}
  \cup {ExprGrouping(ExprLiteral(l)) : l \in Literals}
  \cup {ExprUnary(OpTok(k, 1), ExprLiteral(l)) : k \in UnaryKinds, l \in Literals}
  \cup {ExprBinary(ExprLiteral(l), OpTok(k, 1), ExprLiteral(r)) :
          k \in BinaryKinds, l \in Literals, r \in Literals}
One == ExprLiteral(LitNumber(<<1, 1>>))
Empty == ExprLiteral(LitStr(<<>>))
DeepExprs ==
  {ExprUnary(OpTok("Minus", 1), ExprGrouping(ExprBinary(Empty, OpTok("Plus", 2), One))),
   ExprBinary(ExprBinary(ExprLiteral(LitNil), OpTok("Minus", 1), One), OpTok("Minus", 2), One),
   ExprBinary(One, OpTok("Less", 1), ExprUnary(OpTok("Minus", 2), Empty)),
   ExprBinary(ExprUnary(OpTok("Minus", 1), ExprLiteral(LitBool(TRUE))), OpTok("Plus", 2),
              ExprUnary(OpTok("Minus", 3), ExprLiteral(LitNil))),
   ExprBinary(One, OpTok("Plus", 1), ExprBinary(One, OpTok("Slash", 1), ExprLiteral(LitNumber(<<0, 1>>)))),
   ExprUnary(OpTok("Bang", 1), ExprBinary(One, OpTok("Less", 1), One))}
Programs1 == {<<Stmt(k, e)>> : k \in {"Expression", "Print"}, e \in FlatExprs \cup DeepExprs}

\* Longer programs, of a few statements that print, fail or do neither.
FewStmts ==
  {Stmt("Print", One),
   Stmt("Expression", One),
   Stmt("Print", ExprUnary(OpTok("Minus", 1), Empty)),
   Stmt("Expression", ExprBinary(One, OpTok("Plus", 2), Empty)),
   Stmt("Print", ExprBinary(Empty, OpTok("EqualEqual", 3), Empty))}
Programs == Programs1 \cup SeqsUpTo(FewStmts, MaxStmts)

InterpInit ==
  /\ mode = "file"
  /\ pc = "interpret" /\ exit = <<>> /\ first = NoFirst
  /\ had_error = FALSE /\ had_runtime_error = FALSE
  /\ errors = <<>> /\ output = <<>>
  /\ source = <<>> /\ start = 0 /\ current = 0 /\ line = 1 /\ tokens = <<>> /\ spc = "top"
  /\ string_turn = 0
  /\ pcur = 0 /\ pstack = <<>> /\ preg = Idle /\ parsed = NoneParsed
  /\ statements \in Programs /\ idx = 0 /\ last = ROk(ValNil)

InterpSpec == InterpInit /\ [][InterpNext]_vars

\* ------------------------------------------------------------ the scanner
ScanDone == pc = "parse"

\* A quote, text without a quote, a quote.
IsQuoted(src) ==
  /\ Len(src) >= 2 /\ src[1] = Quote /\ src[Len(src)] = Quote
  /\ \A i \in 2..(Len(src) - 1) : src[i] # Quote
\* A quote and no second one.
IsUnterminated(src) ==
  /\ Len(src) >= 1 /\ src[1] = Quote
  /\ \A i \in 2..Len(src) : src[i] # Quote
Between(src) == SubSeq(src, 2, Len(src) - 1)

\* C1: for every source text scan_tokens terminates, returning the tokens
\* formed so far followed by the end-of-input token.
C1_ScanTerminates ==
  <>(ScanDone /\ tokens # <<>> /\ tokens[Len(tokens)].kind = "Eof")

\* C2: a quote, text without a quote and a quote scan to exactly one String
\* token whose literal is the text between the quotes, then end-of-input; an
\* opening quote with no closing quote reports "Unterminated string.", sets
\* had_error and leaves no token for the string.
C2_StringLiteral ==
  /\ [](IsQuoted(source) =>
          <>(/\ ScanDone /\ Len(tokens) = 2
             /\ tokens[1].kind = "String"
             /\ tokens[1].literal = LitStr(Between(source))
             /\ tokens[2].kind = "Eof"))
  /\ [](IsUnterminated(source) =>
          <>(/\ ScanDone /\ Len(tokens) = 1 /\ tokens[1].kind = "Eof"
             /\ had_error
             /\ \E i \in 1..Len(errors) : errors[i].message = "Unterminated string."))

\* ------------------------------------------------------------- the parser
ParseDone == pc = "unwrap"
EofIndex == Len(tokens) - 1
SyntaxErrors == SelectSeq(errors, LAMBDA r : r.kind = "syntax")

\* C3: parse consumes the whole token sequence up to end-of-input as a sequence
\* of statements (print expression ';' and expression ';'); tokens after a
\* complete expression are never silently ignored, and a well-formed program
\* of statements parses without a syntax error.
C3_ProgramOfStatements ==
  ParseDone =>
    /\ (pcur = EofIndex \/ had_error)
    /\ (tokens \in {TokensOf(<<"print", "1", ";">>), TokensOf(<<"1", ";", "2", ";">>)}
          => (parsed.some /\ ~had_error /\ pcur = EofIndex))

\* C4: after a parse failure the parser synchronizes and resumes, so two
\* malformed statements separated by semicolons report exactly two syntax
\* errors, one per statement.
C4_OneErrorPerStatement ==
  (ParseDone /\ tokens = TokensOf(<<")", ";", ")", ";">>)) => Len(SyntaxErrors) = 2

\* The precedence level of an expression: equality 1, comparison 2, term 3,
\* factor 4, unary 5, primary 6.
Rank(e) ==
  CASE e[1] = "Binary" ->
         (CASE e[3].kind \in {"BangEqual", "EqualEqual"} -> 1
            [] e[3].kind \in {"Greater", "GreaterEqual", "Less", "LessEqual"} -> 2
            [] e[3].kind \in {"Minus", "Plus"} -> 3
            [] e[3].kind \in {"Slash", "Star"} -> 4
            [] OTHER -> 0)
    [] e[1] = "Unary" -> 5
    [] OTHER -> 6

\* Every node's operands sit where precedence and left-associativity put them:
\* a left operand of no lower level, a right operand of a higher level.
RECURSIVE Shaped(_)
Shaped(e) ==
  CASE e[1] = "Literal" -> TRUE
    [] e[1] = "Grouping" -> Shaped(e[2])
    [] e[1] = "Unary" ->
         e[2].kind \in {"Bang", "Minus"} /\ Rank(e[3]) >= 5 /\ Shaped(e[3])
    [] e[1] = "Binary" ->
         /\ Rank(e) \in 1..4
         /\ Rank(e[2]) >= Rank(e) /\ Rank(e[4]) > Rank(e)
         /\ Shaped(e[2]) /\ Shaped(e[4])

\* The literal a token stands for in primary.
Denotes(tok, l) ==
  CASE tok.kind = "False" -> l = LitBool(FALSE)
    [] tok.kind = "True" -> l = LitBool(TRUE)
    [] tok.kind = "Nil" -> l = LitNil
    [] tok.kind \in {"Number", "String"} -> l = tok.literal
    [] OTHER -> FALSE

\* The cursor after the tokens from cursor i that spell e in order, or -1 when
\* the tokens there do not spell it.
RECURSIVE Spell(_, _)
Spell(e, i) ==
  IF i < 0 \/ i >= Len(tokens) THEN -1
  ELSE CASE e[1] = "Literal" -> (IF Denotes(tokens[i + 1], e[2]) THEN i + 1 ELSE -1)
         [] e[1] = "Grouping" ->
              (IF tokens[i + 1].kind # "LeftParen" THEN -1
               ELSE LET j == Spell(e[2], i + 1)
                    IN IF j >= 0 /\ j < Len(tokens) /\ tokens[j + 1].kind = "RightParen"
                       THEN j + 1 ELSE -1)
         [] e[1] = "Unary" ->
              (IF tokens[i + 1] = e[2] THEN Spell(e[3], i + 1) ELSE -1)
         [] e[1] = "Binary" ->
              (LET j == Spell(e[2], i)
               IN IF j >= 0 /\ j < Len(tokens) /\ tokens[j + 1] = e[3]
                  THEN Spell(e[4], j + 1) ELSE -1)

Num(n) == ExprLiteral(LitNumber(<<n, 1>>))
\* 1 + (2 * 3)
Tree_1_plus_2_times_3 ==
  ExprBinary(Num(1), TokOf("+"), ExprBinary(Num(2), TokOf("*"), Num(3)))
\* (1 - 2) - 3
Tree_1_minus_2_minus_3 ==
  ExprBinary(ExprBinary(Num(1), TokOf("-"), Num(2)), TokOf("-"), Num(3))
\* (1 + 2) * 3, the group kept
Tree_group_times_3 ==
  ExprBinary(ExprGrouping(ExprBinary(Num(1), TokOf("+"), Num(2))), TokOf("*"), Num(3))

\* C5: the tree parsed from a valid expression respects the precedence order
\* equality < comparison < term < factor < unary < primary and is
\* left-associative within each binary level; it spells the tokens consumed, in
\* order, and stops only where no binary operator follows.
C5_Precedence ==
  (ParseDone /\ parsed.some /\ ~had_error) =>
    /\ Shaped(parsed.expr)
    /\ Spell(parsed.expr, 0) = pcur
    /\ tokens[pcur + 1].kind \notin BinaryKinds
    /\ (tokens = TokensOf(<<"1", "+", "2", "*", "3">>)
          => parsed.expr = Tree_1_plus_2_times_3)
    /\ (tokens = TokensOf(<<"1", "-", "2", "-", "3">>)
          => parsed.expr = Tree_1_minus_2_minus_3)
    /\ (tokens = TokensOf(<<"(", "1", "+", "2", ")", "*", "3">>)
          => parsed.expr = Tree_group_times_3)

C5_Witness ==
  /\ ParseDone /\ ~had_error
  /\ tokens = TokensOf(<<"1", "+", "2", "*", "3">>)
  /\ parsed = SomeParsed(Tree_1_plus_2_times_3)

\* -------------------------------------------------------- the interpreter
\* The statement the for loop of interpret has just run.
Ran == pc = "interpret" /\ idx > 0 /\ idx <= Len(statements)
RanExpr == statements[idx].expr
IsLit(e) == e[1] = "Literal"
\* One binary operator over two literals.
FlatBinary(e) == e[1] = "Binary" /\ IsLit(e[2]) /\ IsLit(e[4])

\* Equality of two values as the language defines it.
SameValue(a, b) ==
  /\ a.kind = b.kind
  /\ CASE a.kind = "Nil" -> TRUE
       [] a.kind = "Bool" -> a.bool = b.bool
       [] a.kind = "Number" -> FEq(a.num, b.num)
       [] a.kind = "Str" -> a.str = b.str

\* C6: == is true exactly for two nils, two equal booleans, two equal numbers
\* or two equal strings, and false for values of different kinds; != is its
\* negation.
C6_Equality ==
  (Ran /\ FlatBinary(RanExpr) /\ RanExpr[3].kind \in {"EqualEqual", "BangEqual"}) =>
    /\ last.ok
    /\ last.value =
         ValBool((RanExpr[3].kind = "EqualEqual") =
                 SameValue(FromLiteral(RanExpr[2][2]), FromLiteral(RanExpr[4][2])))

\* What a statement prints and reports when run by itself.
PrintsOf(stmt) ==
  IF stmt.kind = "Print" /\ evaluate(stmt.expr).ok
  THEN <<stringify(evaluate(stmt.expr).value)>> ELSE <<>>
ReportsOf(stmt) ==
  IF evaluate(stmt.expr).ok THEN <<>>
  ELSE <<Report("runtime", evaluate(stmt.expr).token.line, <<>>,
                evaluate(stmt.expr).message)>>

\* What the first n statements print and report, each run by itself, in order.
RECURSIVE PrintsUpTo(_)
PrintsUpTo(n) == IF n = 0 THEN <<>> ELSE PrintsUpTo(n - 1) \o PrintsOf(statements[n])
RECURSIVE ReportsUpTo(_)
ReportsUpTo(n) == IF n = 0 THEN <<>> ELSE ReportsUpTo(n - 1) \o ReportsOf(statements[n])

\* C7: interpret executes the statements in order; a runtime error aborts its
\* statement alone (a Print-statement prints nothing), is reported once and
\* sets had_runtime_error, and every later statement is still executed.
C7_ErrorsAbortOneStatement ==
  /\ pc = "interpret" =>
       /\ idx <= Len(statements)
       /\ output = PrintsUpTo(idx)
       /\ errors = ReportsUpTo(idx)
       /\ had_runtime_error = (errors # <<>>)
  /\ pc = "after" =>
       /\ idx = Len(statements)
       /\ output = Append(PrintsUpTo(Len(statements)), <<"(", ")">>)
       /\ errors = ReportsUpTo(Len(statements))
       /\ had_runtime_error = (errors # <<>>)

C7_Witness ==
  /\ pc = "after"
  /\ statements = <<Stmt("Print", ExprUnary(OpTok("Minus", 1), Empty)), Stmt("Print", One)>>
  /\ output = << <<"1">>, <<"(", ")">> >>
  /\ Len(errors) = 1 /\ had_runtime_error

\* The operator tokens of an expression.
RECURSIVE OperatorsOf(_)
OperatorsOf(e) ==
  CASE e[1] = "Literal" -> {}
    [] e[1] = "Grouping" -> OperatorsOf(e[2])
    [] e[1] = "Unary" -> {e[2]} \cup OperatorsOf(e[3])
    [] e[1] = "Binary" -> {e[3]} \cup OperatorsOf(e[2]) \cup OperatorsOf(e[4])

NumericKinds == {"Minus", "Slash", "Star", "Greater", "GreaterEqual", "Less", "LessEqual"}

\* C8: unary - succeeds only on a number, else "Operand must be a number.";
\* binary - / * > >= < <= succeed only on two numbers, else "Operands must be
\* a number."; binary + succeeds only on two numbers or two strings, else
\* "Operands must be two numbers or two strings."; each error carries the
\* operator token of the failing node.
C8_OperandTypes ==
  Ran =>
    /\ (RanExpr[1] = "Unary" /\ IsLit(RanExpr[3]) /\ RanExpr[2].kind = "Minus") =>
         IF RanExpr[3][2].kind = "Number" THEN last.ok
         ELSE last = RErr(RanExpr[2], "Operand must be a number.")
    /\ (FlatBinary(RanExpr) /\ RanExpr[3].kind \in NumericKinds) =>
         IF RanExpr[2][2].kind = "Number" /\ RanExpr[4][2].kind = "Number" THEN last.ok
         ELSE last = RErr(RanExpr[3], "Operands must be a number.")
    /\ (FlatBinary(RanExpr) /\ RanExpr[3].kind = "Plus") =>
         IF \/ RanExpr[2][2].kind = "Number" /\ RanExpr[4][2].kind = "Number"
            \/ RanExpr[2][2].kind = "Str" /\ RanExpr[4][2].kind = "Str"
         THEN last.ok
         ELSE last = RErr(RanExpr[3], "Operands must be two numbers or two strings.")
    /\ ~last.ok =>
         /\ last.token \in OperatorsOf(RanExpr)
         /\ last.message \in
              {"Operand must be a number.", "Operands must be a number.",
               "Operands must be two numbers or two strings."}
         /\ (last.message = "Operands must be two numbers or two strings.")
              = (last.token.kind = "Plus")
    /\ (RanExpr = ExprUnary(OpTok("Minus", 1),
                    ExprGrouping(ExprBinary(Empty, OpTok("Plus", 2), One)))) =>
         last = RErr(OpTok("Plus", 2), "Operands must be two numbers or two strings.")
    /\ (RanExpr = ExprBinary(One, OpTok("Less", 1), ExprUnary(OpTok("Minus", 2), Empty))) =>
         last = RErr(OpTok("Minus", 2), "Operand must be a number.")

C8_Witness ==
  /\ Ran
  /\ RanExpr = ExprBinary(ExprLiteral(LitBool(TRUE)), OpTok("Less", 1), One)
  /\ last = RErr(OpTok("Less", 1), "Operands must be a number.")
  /\ had_runtime_error

\* ----------------------------------------------------------------- the run
LexicalOrSyntaxError == \E i \in 1..Len(errors) : errors[i].kind \in {"lexical", "syntax"}
RuntimeErrorSeen == \E i \in 1..Len(errors) : errors[i].kind = "runtime"

\* C9: run_file ends with exit code 65 whenever the source has a lexical or
\* syntax error, with 70 whenever it has none but a runtime error occurred,
\* and with a normal return (0) otherwise.
C9_ExitCodes ==
  (mode = "file" /\ pc = "exited") =>
    exit = IF LexicalOrSyntaxError THEN <<65>>
           ELSE IF RuntimeErrorSeen THEN <<70>> ELSE <<0>>

\* C10: interpret is never invoked while had_error is set: a run in which the
\* scanner or the parser reported an error, or that began with the flag set,
\* evaluates no statement.
C10_NoInterpretAfterError ==
  had_error =>
    /\ pc \notin {"interpret", "after"}
    /\ idx = 0 /\ output = <<>> /\ ~RuntimeErrorSeen

\* A run that began with the flag set (it reported nothing itself) has
\* returned from a text that scans and parses, with no statement evaluated.
C10_Witness ==
  /\ mode = "prompt" /\ pc = "returned"
  /\ had_error /\ errors = <<>>
  /\ parsed.some /\ statements # <<>> /\ idx = 0

\* ------------------------------------------------------------- two runs
\* Lox::run twice on one Lox with the same text, as run_prompt does on a line
\* entered twice (a text of several lines is run whole, as run_file's is).  Between the runs the driver may call clear_error(), which
\* is all the reset Lox offers; run_prompt itself calls nothing.
Rerun ==
  /\ mode = "twice" /\ pc = "returned" /\ ~first.done
  /\ first' = [done |-> TRUE, errors |-> errors, output |-> output,
               had_error |-> had_error, had_runtime_error |-> had_runtime_error,
               kind |-> statements[1].kind]
  /\ \E clear \in BOOLEAN : had_error' = (IF clear THEN FALSE ELSE had_error)
  /\ FreshRun(source)
  /\ pc' = "scan"
  /\ UNCHANGED <<mode, exit, had_runtime_error>>

TwiceInit ==
  /\ mode = "twice"
  /\ pc = "scan" /\ exit = <<>> /\ first = NoFirst
  /\ had_error = FALSE /\ had_runtime_error = FALSE
  /\ errors = <<>> /\ output = <<>>
  /\ source \in RunSources
  /\ start = 0 /\ current = 0 /\ line = 1 /\ tokens = <<>> /\ spc = "top"
  /\ string_turn = 0
  /\ pcur = 0 /\ pstack = <<>> /\ preg = Idle /\ parsed = NoneParsed
  /\ statements = <<>> /\ idx = 0 /\ last = ROk(ValNil)

TwiceNext ==
  \/ ScanToken \/ Comment \/ String \/ Number \/ Identifier \/ ScanEof
  \/ ParseBegin \/ LeftBinopCall \/ LeftBinopResume \/ UnaryCall \/ UnaryResume
  \/ PrimaryCall \/ GroupingResume \/ ParseReturn
  \/ Unwrap \/ ErrorCheck \/ InterpretStep \/ InterpretReturn \/ AfterInterpret
  \/ Rerun

TwiceSpec == TwiceInit /\ [][TwiceNext]_vars

\* C11: the same text run twice through Lox::run on one Lox, the driver
\* clearing the error sink in between (or, as run_prompt, not clearing it),
\* prints the same and reports the same both times and leaves the same flags:
\* nothing the first run set changes what the second does.
C11_SameTwice ==
  (first.done /\ pc \in {"returned", "exited"}) =>
    /\ pc = "returned"
    /\ output = first.output
    /\ errors = first.errors
    /\ had_error = first.had_error
    /\ had_runtime_error = first.had_runtime_error

\* The second run of a text with a runtime error has returned: the first run
\* left had_runtime_error set, and the second still evaluated and reported.
C11_Witness ==
  /\ first.done /\ pc = "returned"
  /\ first.had_runtime_error /\ first.errors # <<>>
  /\ idx = 1 /\ errors # <<>> /\ output = << <<"(", ")">> >>

\* ------------------------------------------------------------ token lines
\* The 1-based line of the character at offset i of source: one more than the
\* newlines before it.
LineOf(i) == 1 + Cardinality({j \in 1..i : source[j] = Newline})
\* The counter alone: it starts at 1 and counts the newlines consumed.
LineCounted == pc = "scan" => line = LineOf(current)
\* A step of the scanner that adds a token other than Eof.
Emits ==
  /\ Len(tokens') = Len(tokens) + 1
  /\ tokens'[Len(tokens')].kind # "Eof"

\* C12: the line counter is 1 plus the newlines consumed so far, and every
\* token the scanner adds carries the line of its first character (the
\* character at start), also a string literal with newlines inside it.
C12_TokenLines ==
  /\ []LineCounted
  /\ [][Emits => tokens'[Len(tokens')].line = LineOf(start')]_vars


\* ----------------------------------------------------- reported, signalled
\* A step of the parser in which error_at was called.
ReportsSyntaxError ==
  /\ Len(errors') = Len(errors) + 1
  /\ errors'[Len(errors')].kind = "syntax"

\* C13: every syntax error the parser reports is also returned: the step that
\* calls error_at returns Err(ParseError), and a parse that reported a syntax
\* error does not return an expression.
C13_ReportedIsReturned ==
  /\ [][ReportsSyntaxError => preg' = Err]_vars
  /\ []((ParseDone /\ SyntaxErrors # <<>>) => ~parsed.some)

\* ------------------------------------------------------------ the cursor
\* The cursor is on a token, at or before Eof.
CursorInRange == pcur \in 0..EofIndex /\ HasPeek(pcur)

\* C14: on tokens that end with Eof the parser's cursor stays within
\* 0..index of Eof and never decreases; advance and synchronize, were they
\* called at the cursor, would leave it within that range too; so peek()
\* always has a token for the unwrap() of primary and consume.
C14_CursorInRange ==
  /\ [](/\ CursorInRange
        /\ p_advance(pcur) \in pcur..EofIndex
        /\ synchronize(pcur) \in pcur..EofIndex
        /\ exit # <<PanicExit>>)
  /\ [][pcur' >= pcur]_vars

\* A parse that ran to Eof and called consume there: `( 1 Eof` and the like,
\* where "Expect ')' after expression." is reported at the Eof token.
C14_Witness ==
  /\ ParseDone /\ pcur = EofIndex /\ pcur >= 2
  /\ SyntaxErrors # <<>>
  /\ SyntaxErrors[Len(SyntaxErrors)].where = WhereOf(EofTok)
====
